---- MODULE Spec2Model ----
(***************************************************************************)
(* Declarative reconciliation of Consul ACL policies and tokens            *)
(* (plugins/module_utils/consul.py, plugins/modules/consul_policy.py,      *)
(* plugins/modules/consul_token.py).                                        *)
(*                                                                         *)
(* Python values are represented as follows.                               *)
(*   dict            a function whose domain is the set of its keys        *)
(*   list            a sequence                                            *)
(*   Optional value  None is <<>> and a present value v is <<v>>           *)
(*   module.params   a function over the parameters whose value is not     *)
(*                   None; a parameter outside its domain is None          *)
(***************************************************************************)
EXTENDS Integers, Sequences, FiniteSets, TLC

VARIABLES
    kind,        \* the resource module all invocations run: "policy" or "token"
    remote,      \* Optional object the Consul agent stores
    remote0,     \* what the agent stored before the first invocation
    index,       \* the agent's raft index
    pc,          \* per invocation: "start", "read", "done" or "failed"
    params,      \* per invocation: module.params
    check_mode,  \* per invocation: module.check_mode
    diff_mode,   \* module._diff, one setting for the whole play
    obj,         \* per invocation: what read_object returned
    op,          \* per invocation: the branch execute took
    changed,     \* per invocation: execute's changed
    diff,        \* per invocation: execute's diff
    new_obj,     \* per invocation: execute's new_obj
    result,      \* per invocation: Optional dict handed to exit_json
    reqs,        \* per invocation: the requests sent, with their answers
    err,         \* per invocation: Optional uncaught exception
    after        \* per invocation: who had finished when it started

vars == <<kind, remote, remote0, index, pc, params, check_mode, diff_mode,
          obj, op, changed, diff, new_obj, result, reqs, err, after>>

-----------------------------------------------------------------------------
(* Bounds of the model *)

\* the Consul raft index stops growing here
MaxIndex == 3

\* number of distinct description texts an operator may ask for
NumDescriptions == 2

\* number of distinct roles an operator may name on a token
MaxRoles == 2

Invocations == {1, 2}

-----------------------------------------------------------------------------
(* Optional values and dicts *)

None == <<>>
Some(v) == <<v>>
IsNone(o) == o = <<>>
The(o) == o[1]

EmptyDict == [k \in {} |-> ""]

\* dict.get(k)
Get(d, k) == IF k \in DOMAIN d THEN Some(d[k]) ELSE None

\* {k: v for k, v in d.items() if k not in ks}
Without(d, ks) == [k \in (DOMAIN d) \ ks |-> d[k]]

-----------------------------------------------------------------------------
(* module_utils/consul.py: constants *)

STATE_PARAMETER == "state"
STATE_PRESENT == "present"
STATE_ABSENT == "absent"

OPERATION_READ == "read"
OPERATION_CREATE == "create"
OPERATION_UPDATE == "update"
OPERATION_DELETE == "delete"

auth_argument_spec ==
    {"host", "port", "scheme", "validate_certs", "token", "ca_path"}

\* the values the connection parameters take when the operator sets none
AuthDefaults ==
    [host |-> "localhost", port |-> "8500", scheme |-> "http",
     validate_certs |-> "True"]

\* key.split("_")
Split(key) ==
    CASE key = "name" -> <<"name">>
      [] key = "description" -> <<"description">>
      [] key = "rules" -> <<"rules">>
      [] key = "valid_datacenters" -> <<"valid", "datacenters">>
      [] key = "accessor_id" -> <<"accessor", "id">>
      [] key = "secret_id" -> <<"secret", "id">>
      [] key = "roles" -> <<"roles">>
      [] key = "policies" -> <<"policies">>
      [] key = "templated_policies" -> <<"templated", "policies">>
      [] key = "node_identities" -> <<"node", "identities">>
      [] key = "service_identities" -> <<"service", "identities">>
      [] key = "local" -> <<"local">>
      [] key = "expiration_ttl" -> <<"expiration", "ttl">>
      [] key = "id" -> <<"id">>
      [] key = "state" -> <<"state">>
      [] key = "host" -> <<"host">>
      [] key = "port" -> <<"port">>
      [] key = "scheme" -> <<"scheme">>
      [] key = "validate_certs" -> <<"validate", "certs">>
      [] key = "token" -> <<"token">>
      [] key = "ca_path" -> <<"ca", "path">>
      [] key = "service_name" -> <<"service", "name">>
      [] key = "node_name" -> <<"node", "name">>
      [] key = "datacenters" -> <<"datacenters">>

\* part.upper()
Upper(part) ==
    CASE part = "id" -> "ID"
      [] part = "ttl" -> "TTL"
      [] part = "jwks" -> "JWKS"
      [] part = "jwt" -> "JWT"
      [] part = "oidc" -> "OIDC"
      [] part = "iam" -> "IAM"
      [] part = "sts" -> "STS"

\* part.capitalize()
Capitalize(part) ==
    CASE part = "name" -> "Name"
      [] part = "description" -> "Description"
      [] part = "rules" -> "Rules"
      [] part = "valid" -> "Valid"
      [] part = "datacenters" -> "Datacenters"
      [] part = "accessor" -> "Accessor"
      [] part = "secret" -> "Secret"
      [] part = "roles" -> "Roles"
      [] part = "policies" -> "Policies"
      [] part = "templated" -> "Templated"
      [] part = "node" -> "Node"
      [] part = "identities" -> "Identities"
      [] part = "service" -> "Service"
      [] part = "local" -> "Local"
      [] part = "expiration" -> "Expiration"
      [] part = "state" -> "State"
      [] part = "host" -> "Host"
      [] part = "port" -> "Port"
      [] part = "scheme" -> "Scheme"
      [] part = "validate" -> "Validate"
      [] part = "certs" -> "Certs"
      [] part = "token" -> "Token"
      [] part = "ca" -> "Ca"
      [] part = "path" -> "Path"

RECURSIVE JoinParts(_)
JoinParts(parts) ==
    IF parts = <<>> THEN ""
    ELSE (IF Head(parts) \in {"id", "ttl", "jwks", "jwt", "oidc", "iam", "sts"}
          THEN Upper(Head(parts))
          ELSE Capitalize(Head(parts))) \o JoinParts(Tail(parts))

camel_case_key(key) == JoinParts(Split(key))

\* "/".join(parts)
RECURSIVE JoinUrl(_)
JoinUrl(parts) ==
    IF Len(parts) = 1 THEN parts[1]
    ELSE parts[1] \o "/" \o JoinUrl(Tail(parts))

-----------------------------------------------------------------------------
(* The two resource modules: class attributes and argument specs.  self is *)
(* "policy" for ConsulPolicyModule and "token" for ConsulTokenModule.       *)

api_endpoint(self) == IF self = "policy" THEN "acl/policy" ELSE "acl/token"

unique_identifier(self) == IF self = "policy" THEN "id" ELSE "accessor_id"

result_key(self) == IF self = "policy" THEN "policy" ELSE "token"

\* neither module overrides the empty sets of the base class
create_only_fields(self) == {}

camel_case_fields(self) == {}

\* keys of _ARGUMENT_SPEC after _ARGUMENT_SPEC.update(auth_argument_spec())
ARGUMENT_SPEC(self) ==
    IF self = "policy"
    THEN {"name", "description", "rules", "valid_datacenters", "state"}
         \cup auth_argument_spec
    ELSE {"description", "accessor_id", "secret_id", "roles", "policies",
          "templated_policies", "node_identities", "service_identities",
          "local", "expiration_ttl", "state"} \cup auth_argument_spec

\* k in STATE_PARAMETER is a substring test on the string "state"
InStateParameter(k) ==
    k \in {"", "s", "t", "a", "e", "st", "ta", "at", "te", "sta", "tat",
           "ate", "stat", "tate", "state"}

\* a mapping that covers every parameter of the argument spec
param_obj_mapping_all(self) ==
    [k \in ARGUMENT_SPEC(self) |-> camel_case_key(k)]

\* _ConsulModule.__init__
param_obj_mapping(self) ==
    [k \in {a \in ARGUMENT_SPEC(self) :
              ~InStateParameter(a) /\ a \notin auth_argument_spec}
       |-> camel_case_key(k)]

-----------------------------------------------------------------------------
(* Translation of the parameters into the candidate object *)

\* the nested helper of map_param: camel-case the keys of one dict
helper(item) ==
    [ck \in {camel_case_key(k) : k \in DOMAIN item}
       |-> item[CHOOSE k \in DOMAIN item : camel_case_key(k) = ck]]

\* _ConsulModule.map_param; v is the Optional parameter value, the result
\* is None or the pair <<remote key, value>>.  No parameter of the two
\* modules is in camel_case_fields, so the two isinstance branches are dead.
ConsulModule_map_param(self, k, v, is_update) ==
    IF k \in DOMAIN param_obj_mapping(self) /\ ~IsNone(v)
    THEN IF is_update /\ k \in create_only_fields(self)
         THEN None
         ELSE <<param_obj_mapping(self)[k], The(v)>>
    ELSE None

\* [{"Name": i} for i in v]
NameRecords(v) == [n \in 1..Len(v) |-> [Name |-> v[n]]]

\* ConsulTokenModule.map_param
ConsulTokenModule_map_param(self, k, v, is_update) ==
    LET v1 == IF k \in {"policies", "roles"} /\ ~IsNone(v) /\ The(v) # <<>>
              THEN Some(NameRecords(The(v)))
              ELSE v
        v2 == IF /\ k \in {"templated_policies", "node_identities",
                           "service_identities"}
                 /\ ~IsNone(v1) /\ The(v1) # <<>>
              THEN Some([n \in 1..Len(The(v1)) |-> helper(The(v1)[n])])
              ELSE v1
    IN IF is_update /\ k = "expiration_ttl"
       THEN None
       ELSE ConsulModule_map_param(self, k, v2, is_update)

map_param(self, k, v, is_update) ==
    IF self = "token"
    THEN ConsulTokenModule_map_param(self, k, v, is_update)
    ELSE ConsulModule_map_param(self, k, v, is_update)

\* _ConsulModule.module_to_obj
module_to_obj(self, p, is_update) ==
    LET results == {map_param(self, k, Get(p, k), is_update) :
                      k \in ARGUMENT_SPEC(self)} \ {None}
    IN [rk \in {r[1] : r \in results} |->
          (CHOOSE r \in results : r[1] = rk)[2]]

-----------------------------------------------------------------------------
(* Comparison and merge *)

\* the loop of _ConsulModule.needs_update over the items of module_obj
\* that are still to be looked at
RECURSIVE needs_update_loop(_, _, _)
needs_update_loop(api_obj, module_obj, todo) ==
    IF todo = {}
    THEN FALSE
    ELSE LET k == CHOOSE x \in todo : TRUE
         IN IF k \notin DOMAIN api_obj
            THEN TRUE
            ELSE IF api_obj[k] # module_obj[k]
                 THEN TRUE
                 ELSE needs_update_loop(api_obj, module_obj, todo \ {k})

\* a comparison that returns after the first item
ConsulModule_needs_update_first_item(api_obj, module_obj) ==
    IF DOMAIN module_obj = {}
    THEN FALSE
    ELSE LET k == CHOOSE x \in DOMAIN module_obj : TRUE
         IN IF k \notin DOMAIN api_obj
            THEN TRUE
            ELSE api_obj[k] # module_obj[k]

\* _ConsulModule.needs_update
ConsulModule_needs_update(api_obj, module_obj) ==
    needs_update_loop(api_obj, module_obj, DOMAIN module_obj)

\* [{"Name": i["Name"]} for i in entries]
NamesOnly(entries) == [n \in 1..Len(entries) |-> [Name |-> entries[n].Name]]

\* the normalisation without the reduction of Roles and Policies to names
TokenNormalizedApiObj_full_entries(api_obj, module_obj) ==
    IF "SecretID" \notin DOMAIN module_obj
    THEN Without(api_obj, {"SecretID"})
    ELSE api_obj

\* ConsulTokenModule.needs_update: the api_obj it passes on to the base class
TokenNormalizedApiObj(api_obj, module_obj) ==
    LET a1 == IF "SecretID" \notin DOMAIN module_obj
              THEN Without(api_obj, {"SecretID"})
              ELSE api_obj
    IN [k \in DOMAIN a1 |->
          IF k \in {"Roles", "Policies"} THEN NamesOnly(a1[k]) ELSE a1[k]]

\* ConsulTokenModule.needs_update: the module_obj it passes on
TokenNormalizedModuleObj(module_obj) == Without(module_obj, {"ExpirationTTL"})

ConsulTokenModule_needs_update(api_obj, module_obj) ==
    ConsulModule_needs_update(TokenNormalizedApiObj(api_obj, module_obj),
                              TokenNormalizedModuleObj(module_obj))

needs_update(self, api_obj, module_obj) ==
    IF self = "token"
    THEN ConsulTokenModule_needs_update(api_obj, module_obj)
    ELSE ConsulModule_needs_update(api_obj, module_obj)

\* the two arguments of needs_update as the call leaves them: the token
\* module changes them in place, the base class only reads them
needs_update_arguments(self, api_obj, module_obj) ==
    IF self = "token"
    THEN [api_obj |-> TokenNormalizedApiObj(api_obj, module_obj),
          module_obj |-> TokenNormalizedModuleObj(module_obj)]
    ELSE [api_obj |-> api_obj, module_obj |-> module_obj]

\* a _needs_update that hands its own arguments to needs_update
_needs_update_in_place(self, api_obj, module_obj) ==
    [value |-> needs_update(self, api_obj, module_obj),
     api_obj |-> needs_update_arguments(self, api_obj, module_obj).api_obj,
     module_obj |->
        needs_update_arguments(self, api_obj, module_obj).module_obj]

\* _ConsulModule._needs_update: the value returned, and obj and
\* obj_from_module as execute holds them after the call; needs_update was
\* given deep copies, so its changes are not seen
_needs_update(self, api_obj, module_obj) ==
    [value |-> needs_update(self, api_obj, module_obj),
     api_obj |-> api_obj,
     module_obj |-> module_obj]

operational_attributes == {"CreateIndex", "CreateTime", "Hash", "ModifyIndex"}

\* prepare_object that copies the whole existing object forward
prepare_object_keeping_metadata(existing, o) ==
    [k \in (DOMAIN existing) \cup (DOMAIN o) |->
       IF k \in DOMAIN o THEN o[k] ELSE existing[k]]

\* _ConsulModule.prepare_object
prepare_object(existing, o) ==
    LET stripped == Without(existing, operational_attributes)
    IN [k \in (DOMAIN stripped) \cup (DOMAIN o) |->
          IF k \in DOMAIN o THEN o[k] ELSE stripped[k]]

-----------------------------------------------------------------------------
(* URLs.  A failed assert is the value AssertionError. *)

AssertionError == "AssertionError"

\* an endpoint_url that addresses the collection for every operation
ConsulModule_endpoint_url_collection(self, operation, identifier) ==
    api_endpoint(self)

\* _ConsulModule.endpoint_url; identifier is Optional
ConsulModule_endpoint_url(self, operation, identifier) ==
    IF operation = OPERATION_CREATE
    THEN api_endpoint(self)
    ELSE IF IsNone(identifier)
         THEN AssertionError
         ELSE JoinUrl(<<api_endpoint(self), The(identifier)>>)

\* ConsulPolicyModule.endpoint_url
ConsulPolicyModule_endpoint_url(self, p, operation, identifier) ==
    IF operation = OPERATION_READ
    THEN JoinUrl(<<api_endpoint(self), "name", p["name"]>>)
    ELSE ConsulModule_endpoint_url(self, operation, identifier)

endpoint_url(self, p, operation, identifier) ==
    IF self = "policy"
    THEN ConsulPolicyModule_endpoint_url(self, p, operation, identifier)
    ELSE ConsulModule_endpoint_url(self, operation, identifier)

-----------------------------------------------------------------------------
(* The Consul agent as the modules see it through _request: one object per *)
(* resource type, the one the parameters of the invocations name.           *)

Response(status, json, text) == [status |-> status, json |-> json, text |-> text]

\* the substring tests  b"..." in e.response_data
Contains(signature, text) ==
    <<signature, text>> \in
        {<<"ACL not found", "rpc error making call: ACL not found">>,
         <<"token does not exist", "Requested token does not exist">>}

\* answers to a lookup of an object that does not exist
NotFoundResponses(self) ==
    {Response(404, EmptyDict, ""),
     Response(403, EmptyDict, "rpc error making call: ACL not found")}
    \cup (IF self = "token"
          THEN {Response(403, EmptyDict, "Requested token does not exist")}
          ELSE {})

\* answers the agent may give to any lookup, whatever it stores
FaultResponses ==
    {Response(403, EmptyDict, "Permission denied"),
     Response(500, EmptyDict, "rpc error making call: leader not found")}

PolicyName == "foo-access"
AccessorID == "07a7de84-c9c7-448a-99cc-beaf682efd21"

\* the ACL link the agent stores for a role or policy name
Link(entry) == [ID |-> "id-" \o entry.Name, Name |-> entry.Name]

\* what the agent keeps of a PUT body
Stored(self, body) ==
    LET b == Without(body, operational_attributes \cup {"ExpirationTTL"})
        links == [k \in DOMAIN b |->
                    IF self = "token" /\ k \in {"Roles", "Policies"}
                    THEN [n \in 1..Len(b[k]) |-> Link(b[k][n])]
                    ELSE b[k]]
    IN IF self = "token" /\ "ExpirationTTL" \in DOMAIN body
       THEN ("ExpirationTime" :> ("now+" \o body["ExpirationTTL"])) @@ links
       ELSE links

\* fields the agent fills in when the body leaves them out
Generated(self) ==
    IF self = "policy"
    THEN [ID |-> "id-" \o PolicyName]
    ELSE [AccessorID |-> "generated", SecretID |-> "secret"]

Metadata(self, createIndex, modifyIndex) ==
    IF self = "policy"
    THEN [CreateIndex |-> createIndex, ModifyIndex |-> modifyIndex,
          Hash |-> "hash"]
    ELSE [CreateIndex |-> createIndex, ModifyIndex |-> modifyIndex,
          Hash |-> "hash", CreateTime |-> "time"]

\* the ID in the URL of an update or delete
UrlOf(self, o) ==
    JoinUrl(<<api_endpoint(self),
              o[camel_case_key(unique_identifier(self))]>>)

\* GET
ServerGet(self, store) ==
    (IF IsNone(store)
     THEN NotFoundResponses(self)
     ELSE {Response(200, The(store), "")})
    \cup FaultResponses

\* PUT: the pairs <<response, store afterwards>>
ServerPut(self, store, idx, url, data) ==
    LET body == IF IsNone(data) THEN EmptyDict ELSE The(data)
        created == Metadata(self, idx + 1, idx + 1) @@ Stored(self, body)
                   @@ Generated(self)
        updated == Metadata(self, The(store)["CreateIndex"], idx + 1)
                   @@ Stored(self, body) @@ Without(The(store), DOMAIN body)
    IN (IF url = api_endpoint(self)
        THEN IF IsNone(store)
             THEN {<<Response(200, created, ""), Some(created)>>}
             ELSE {<<Response(500, EmptyDict, "already exists"), store>>}
        ELSE IF ~IsNone(store) /\ url = UrlOf(self, The(store))
             THEN {<<Response(200, updated, ""), Some(updated)>>}
             ELSE {<<Response(404, EmptyDict, ""), store>>})

\* DELETE: the pairs <<response, store afterwards>>
ServerDelete(self, store, url) ==
    (IF ~IsNone(store) /\ url = UrlOf(self, The(store))
     THEN {<<Response(200, EmptyDict, ""), None>>}
     ELSE {<<Response(404, EmptyDict, ""), store>>})

\* objects the agent may hold before the first invocation
InitialObjects(self) ==
    IF self = "policy"
    THEN {Metadata(self, 1, 1) @@
          [ID |-> "id-" \o PolicyName, Name |-> PolicyName,
           Description |-> "d1", Rules |-> "r1"],
          Metadata(self, 1, 1) @@
          [ID |-> "id-" \o PolicyName, Name |-> PolicyName,
           Description |-> "d1", Rules |-> "r0"]}
    ELSE {Metadata(self, 1, 1) @@
          [AccessorID |-> AccessorID, SecretID |-> "secret",
           Description |-> "d1", Roles |-> <<Link([Name |-> "role1"])>>],
          Metadata(self, 1, 1) @@
          [AccessorID |-> AccessorID, SecretID |-> "secret",
           Description |-> "d1"],
          Metadata(self, 1, 1) @@
          [AccessorID |-> AccessorID, SecretID |-> "secret",
           Description |-> "d1", ExpirationTTL |-> "5m"]}

-----------------------------------------------------------------------------
(* _request and the error handling of read_object *)

\* _request: 400 <= status < 600 raises RequestError(status, response_data)
Raises(resp) == 400 <= resp.status /\ resp.status < 600

RequestError(resp) ==
    [type |-> "RequestError", status |-> resp.status,
     response_data |-> resp.text]

\* a _request that drops the body
DataSent_never(data) == None

\* _request sends a body only if data is truthy
DataSent(data) == IF data = EmptyDict THEN None ELSE Some(data)

Request(method, url, data, resp) ==
    [method |-> method, url |-> url, data |-> data, status |-> resp.status,
     text |-> resp.text]

\* the outcome of read_object: an exception or a returned Optional object
Raise(e) == [raised |-> TRUE, error |-> Some(e), value |-> None]
Return(v) == [raised |-> FALSE, error |-> None, value |-> v]

\* _ConsulModule.read_object, given the response to its GET
ConsulModule_read_object(resp) ==
    IF ~Raises(resp)
    THEN Return(Some(resp.json))
    ELSE IF resp.status = 404
         THEN Return(None)
         ELSE IF resp.status = 403 /\ Contains("ACL not found", resp.text)
              THEN Return(None)
              ELSE Raise(RequestError(resp))

\* ConsulTokenModule.read_object: a RequestError that is not the
\* "token does not exist" one is caught too and the method falls off its
\* end, which returns None
ConsulTokenModule_read_object(resp) ==
    LET r == ConsulModule_read_object(resp)
    IN IF r.raised
       THEN IF resp.status = 403 /\ Contains("token does not exist", resp.text)
            THEN Return(None)
            ELSE Return(None)
       ELSE r

read_object(self, resp) ==
    IF self = "token"
    THEN ConsulTokenModule_read_object(resp)
    ELSE ConsulModule_read_object(resp)

-----------------------------------------------------------------------------
(* Inputs of an invocation *)

DescriptionText(n) ==
    CASE n = 1 -> "d1" [] n = 2 -> "d2" [] n = 3 -> "d3" [] OTHER -> "d4"

Descriptions == {DescriptionText(n) : n \in 1..NumDescriptions}

\* a parameter that is either left out (None) or set to one of vals
Optional(k, vals) == {EmptyDict} \cup {k :> v : v \in vals}

\* module.params as AnsibleModule hands them over: the connection defaults,
\* state, and the resource fields the operator set.  required_if makes
\* accessor_id mandatory for state=absent of a token.
ParamSpace(self) ==
    IF self = "policy"
    THEN {AuthDefaults @@ ("state" :> s) @@ ("name" :> PolicyName) @@ d @@ r :
            s \in {STATE_PRESENT, STATE_ABSENT},
            d \in Optional("description", Descriptions),
            r \in Optional("rules", {"r1"})}
    ELSE {p \in {AuthDefaults @@ ("state" :> s) @@ a @@ r @@ t :
                   s \in {STATE_PRESENT, STATE_ABSENT},
                   a \in Optional("accessor_id", {AccessorID}),
                   r \in Optional("roles", {<<"role1">>}),
                   t \in Optional("expiration_ttl", {"5m"})} :
            p["state"] = STATE_ABSENT => "accessor_id" \in DOMAIN p}

-----------------------------------------------------------------------------
(* State *)

Init ==
    /\ kind \in {"policy", "token"}
    /\ remote \in {None} \cup {Some(o) : o \in InitialObjects(kind)}
    /\ remote0 = remote
    /\ index = IF IsNone(remote) THEN 0 ELSE 1
    /\ params \in [Invocations -> ParamSpace(kind)]
    /\ check_mode \in [Invocations -> BOOLEAN]
    /\ diff_mode \in BOOLEAN
    /\ pc = [i \in Invocations |-> "start"]
    /\ obj = [i \in Invocations |-> None]
    /\ op = [i \in Invocations |-> ""]
    /\ changed = [i \in Invocations |-> FALSE]
    /\ diff = [i \in Invocations |-> EmptyDict]
    /\ new_obj = [i \in Invocations |-> None]
    /\ result = [i \in Invocations |-> None]
    /\ reqs = [i \in Invocations |-> <<>>]
    /\ err = [i \in Invocations |-> None]
    /\ after = [i \in Invocations |-> {}]

Finished(i) == pc[i] \in {"done", "failed"}

\* the tail of execute: build the result and exit_json
ExitJson(self, chg, df, no, with_diff) ==
    ("changed" :> chg)
    @@ (IF with_diff /\ chg THEN "diff" :> df ELSE EmptyDict)
    @@ (result_key(self) :> no)

Exit(i, operation, chg, df, no) ==
    /\ pc' = [pc EXCEPT ![i] = "done"]
    /\ op' = [op EXCEPT ![i] = operation]
    /\ changed' = [changed EXCEPT ![i] = chg]
    /\ diff' = [diff EXCEPT ![i] = df]
    /\ new_obj' = [new_obj EXCEPT ![i] = no]
    /\ result' = [result EXCEPT ![i] =
                    Some(ExitJson(kind, chg, df, no, diff_mode))]
    /\ err' = err

\* an exception nobody catches ends the invocation
Fail(i, operation, e) ==
    /\ pc' = [pc EXCEPT ![i] = "failed"]
    /\ op' = [op EXCEPT ![i] = operation]
    /\ err' = [err EXCEPT ![i] = Some(e)]
    /\ UNCHANGED <<changed, diff, new_obj, result>>

AssertionFailed ==
    [type |-> AssertionError, status |-> 0, response_data |-> ""]

\* a read that is sent again when the agent answers with an error
Read_retrying(i) ==
    /\ pc[i] = "start"
    /\ after' = [after EXCEPT ![i] = {j \in Invocations : Finished(j)}]
    /\ LET url == endpoint_url(kind, params[i], OPERATION_READ,
                               Get(params[i], unique_identifier(kind)))
       IN IF url = AssertionError
          THEN /\ Fail(i, "", AssertionFailed)
               /\ UNCHANGED <<obj, reqs>>
          ELSE \E resp \in ServerGet(kind, remote) :
                 /\ reqs' = [reqs EXCEPT ![i] =
                               IF Len(@) < 3
                               THEN Append(@, Request("GET", url, None, resp))
                               ELSE @]
                 /\ IF read_object(kind, resp).raised
                    THEN UNCHANGED <<obj, pc, op, changed, diff, new_obj,
                                     result, err>>
                    ELSE /\ obj' = [obj EXCEPT ![i] =
                                      read_object(kind, resp).value]
                         /\ pc' = [pc EXCEPT ![i] = "read"]
                         /\ UNCHANGED <<op, changed, diff, new_obj, result,
                                        err>>
    /\ UNCHANGED <<kind, remote, remote0, index, params, check_mode, diff_mode>>

\* execute, first half: read_object
Read(i) ==
    /\ pc[i] = "start"
    /\ after' = [after EXCEPT ![i] = {j \in Invocations : Finished(j)}]
    /\ LET url == endpoint_url(kind, params[i], OPERATION_READ,
                               Get(params[i], unique_identifier(kind)))
       IN IF url = AssertionError
          THEN /\ Fail(i, "", AssertionFailed)
               /\ UNCHANGED <<obj, reqs>>
          ELSE \E resp \in ServerGet(kind, remote) :
                 /\ reqs' = [reqs EXCEPT ![i] =
                               Append(@, Request("GET", url, None, resp))]
                 /\ IF read_object(kind, resp).raised
                    THEN /\ Fail(i, "", The(read_object(kind, resp).error))
                         /\ obj' = obj
                    ELSE /\ obj' = [obj EXCEPT ![i] =
                                      read_object(kind, resp).value]
                         /\ pc' = [pc EXCEPT ![i] = "read"]
                         /\ UNCHANGED <<op, changed, diff, new_obj, result,
                                        err>>
    /\ UNCHANGED <<kind, remote, remote0, index, params, check_mode, diff_mode>>

\* a PUT or DELETE and what execute makes of its answer
Write(i, operation, method, url, data, answers, before) ==
    \E a \in answers :
      /\ reqs' = [reqs EXCEPT ![i] = Append(@, Request(method, url, data, a[1]))]
      /\ IF Raises(a[1])
         THEN /\ Fail(i, operation, RequestError(a[1]))
              /\ UNCHANGED <<remote, index>>
         ELSE /\ remote' = a[2]
              /\ index' = index + 1
              /\ IF operation = OPERATION_DELETE
                 THEN Exit(i, operation, TRUE,
                           [before |-> before, after |-> EmptyDict], None)
                 ELSE Exit(i, operation, TRUE,
                           [before |-> before, after |-> a[1].json],
                           Some(a[1].json))

\* create_object without the check_mode test
create_object_ignoring_check_mode(i, o) ==
    Write(i, OPERATION_CREATE, "PUT", api_endpoint(kind),
          DataSent(prepare_object(EmptyDict, o)),
          ServerPut(kind, remote, index, api_endpoint(kind),
                    DataSent(prepare_object(EmptyDict, o))),
          EmptyDict)

\* create_object
create_object(i, o) ==
    IF check_mode[i]
    THEN /\ Exit(i, OPERATION_CREATE, TRUE,
                 [before |-> EmptyDict, after |-> o], Some(o))
         /\ UNCHANGED <<remote, index, reqs>>
    ELSE Write(i, OPERATION_CREATE, "PUT", api_endpoint(kind),
               DataSent(prepare_object(EmptyDict, o)),
               ServerPut(kind, remote, index, api_endpoint(kind),
                         DataSent(prepare_object(EmptyDict, o))),
               EmptyDict)

\* update_object that sends the candidate alone
update_object_candidate_only(i, existing, o) ==
    LET url == endpoint_url(kind, params[i], OPERATION_UPDATE,
                 Get(existing, camel_case_key(unique_identifier(kind))))
    IN IF url = AssertionError
       THEN /\ Fail(i, OPERATION_UPDATE, AssertionFailed)
            /\ UNCHANGED <<remote, index, reqs>>
       ELSE IF check_mode[i]
            THEN /\ Exit(i, OPERATION_UPDATE, TRUE,
                         [before |-> existing, after |-> o], Some(o))
                 /\ UNCHANGED <<remote, index, reqs>>
            ELSE Write(i, OPERATION_UPDATE, "PUT", url, DataSent(o),
                       ServerPut(kind, remote, index, url, DataSent(o)),
                       existing)

\* update_object
update_object(i, existing, o) ==
    LET url == endpoint_url(kind, params[i], OPERATION_UPDATE,
                 Get(existing, camel_case_key(unique_identifier(kind))))
    IN IF url = AssertionError
       THEN /\ Fail(i, OPERATION_UPDATE, AssertionFailed)
            /\ UNCHANGED <<remote, index, reqs>>
       ELSE IF check_mode[i]
            THEN /\ Exit(i, OPERATION_UPDATE, TRUE,
                         [before |-> existing, after |-> o], Some(o))
                 /\ UNCHANGED <<remote, index, reqs>>
            ELSE Write(i, OPERATION_UPDATE, "PUT", url,
                       DataSent(prepare_object(existing, o)),
                       ServerPut(kind, remote, index, url,
                                 DataSent(prepare_object(existing, o))),
                       existing)

\* delete_object whose dry run reports no change
delete_object_dry_run_unchanged(i, o) ==
    IF check_mode[i]
    THEN /\ Exit(i, OPERATION_DELETE, FALSE,
                 [before |-> o, after |-> EmptyDict], None)
         /\ UNCHANGED <<remote, index, reqs>>
    ELSE LET url == endpoint_url(kind, params[i], OPERATION_DELETE,
                      Get(o, camel_case_key(unique_identifier(kind))))
         IN IF url = AssertionError
            THEN /\ Fail(i, OPERATION_DELETE, AssertionFailed)
                 /\ UNCHANGED <<remote, index, reqs>>
            ELSE Write(i, OPERATION_DELETE, "DELETE", url, None,
                       ServerDelete(kind, remote, url), o)

\* delete_object
delete_object(i, o) ==
    IF check_mode[i]
    THEN /\ Exit(i, OPERATION_DELETE, TRUE,
                 [before |-> o, after |-> EmptyDict], None)
         /\ UNCHANGED <<remote, index, reqs>>
    ELSE LET url == endpoint_url(kind, params[i], OPERATION_DELETE,
                      Get(o, camel_case_key(unique_identifier(kind))))
         IN IF url = AssertionError
            THEN /\ Fail(i, OPERATION_DELETE, AssertionFailed)
                 /\ UNCHANGED <<remote, index, reqs>>
            ELSE Write(i, OPERATION_DELETE, "DELETE", url, None,
                       ServerDelete(kind, remote, url), o)

\* the branch execute takes once read_object has returned
Present(i) == params[i][STATE_PARAMETER] = STATE_PRESENT
Absent(i) == params[i][STATE_PARAMETER] = STATE_ABSENT

\* execute: state=present, obj is None
Create(i) ==
    /\ pc[i] = "read"
    /\ Present(i)
    /\ IsNone(obj[i])
    /\ index < MaxIndex
    /\ \E obj_from_module \in {module_to_obj(kind, params[i], FALSE)} :
         create_object(i, obj_from_module)
    /\ UNCHANGED <<kind, remote0, params, check_mode, diff_mode, obj, after>>

\* execute: state=present, obj exists and needs an update
Update(i) ==
    /\ pc[i] = "read"
    /\ Present(i)
    /\ ~IsNone(obj[i])
    /\ index < MaxIndex
    /\ \E r \in {_needs_update(kind, The(obj[i]),
                               module_to_obj(kind, params[i], TRUE))} :
         /\ r.value
         /\ update_object(i, r.api_obj, r.module_obj)
    /\ UNCHANGED <<kind, remote0, params, check_mode, diff_mode, obj, after>>

\* execute deleting whatever exists, whichever state is declared
Delete_any_state(i) ==
    /\ pc[i] = "read"
    /\ ~IsNone(obj[i])
    /\ index < MaxIndex
    /\ delete_object(i, The(obj[i]))
    /\ UNCHANGED <<kind, remote0, params, check_mode, diff_mode, obj, after>>

\* execute: state=absent, obj exists
Delete(i) ==
    /\ pc[i] = "read"
    /\ Absent(i)
    /\ ~IsNone(obj[i])
    /\ index < MaxIndex
    /\ delete_object(i, The(obj[i]))
    /\ UNCHANGED <<kind, remote0, params, check_mode, diff_mode, obj, after>>

\* execute without the diff of the absent/absent branch
Noop_without_diff(i) ==
    /\ pc[i] = "read"
    /\ \/ /\ Present(i)
          /\ ~IsNone(obj[i])
          /\ \E r \in {_needs_update(kind, The(obj[i]),
                                     module_to_obj(kind, params[i], TRUE))} :
               /\ ~r.value
               /\ Exit(i, "noop", FALSE, EmptyDict, Some(r.api_obj))
       \/ /\ Absent(i)
          /\ IsNone(obj[i])
          /\ Exit(i, "noop", FALSE, EmptyDict, None)
    /\ UNCHANGED <<kind, remote, remote0, index, params, check_mode,
                   diff_mode, obj, reqs, after>>

\* execute: nothing to do
Noop(i) ==
    /\ pc[i] = "read"
    /\ \/ /\ Present(i)
          /\ ~IsNone(obj[i])
          /\ \E r \in {_needs_update(kind, The(obj[i]),
                                     module_to_obj(kind, params[i], TRUE))} :
               /\ ~r.value
               /\ Exit(i, "noop", FALSE, EmptyDict, Some(r.api_obj))
       \/ /\ Absent(i)
          /\ IsNone(obj[i])
          /\ Exit(i, "noop", FALSE,
                  [before |-> EmptyDict, after |-> EmptyDict], None)
    /\ UNCHANGED <<kind, remote, remote0, index, params, check_mode,
                   diff_mode, obj, reqs, after>>

Next ==
    \E i \in Invocations :
        \/ Read(i)
        \/ Create(i)
        \/ Update(i)
        \/ Delete(i)
        \/ Noop(i)

Spec == Init /\ [][Next]_vars

-----------------------------------------------------------------------------
(* The token module on tokens that carry roles, policies and a secret:   *)
(* invocation 1 declares a token, invocation 2 removes it.               *)

RoleName(n) ==
    CASE n = 1 -> "role1" [] n = 2 -> "role2" [] n = 3 -> "role3"
      [] OTHER -> "role4"

RoleNames == {RoleName(n) : n \in 1..MaxRoles}

\* the lists of role names an operator may write: any order, no repetition
RoleLists ==
    {s \in UNION {[1..n -> RoleNames] : n \in 0..MaxRoles} :
        \A a, b \in DOMAIN s : a # b => s[a] # s[b]}

PolicyLists == {<<"policy1">>, <<"policy2">>}

TokenParamSpace ==
    {AuthDefaults @@ ("state" :> STATE_PRESENT)
       @@ ("accessor_id" :> AccessorID) @@ r @@ p @@ s :
         r \in Optional("roles", RoleLists),
         p \in Optional("policies", PolicyLists),
         s \in Optional("secret_id", {"secret", "other"})}

TokenRemoval ==
    AuthDefaults @@ ("state" :> STATE_ABSENT) @@ ("accessor_id" :> AccessorID)

\* tokens the agent may hold: with linked roles and policies, and bare
TokenObjects ==
    {Metadata("token", 1, 1) @@
     [AccessorID |-> AccessorID, SecretID |-> "secret", Description |-> "d1",
      Roles |-> <<Link([Name |-> "role1"]), Link([Name |-> "role2"])>>,
      Policies |-> <<Link([Name |-> "policy1"])>>],
     Metadata("token", 1, 1) @@
     [AccessorID |-> AccessorID, SecretID |-> "secret", Description |-> "d1",
      Roles |-> <<>>]}

InitToken ==
    /\ kind = "token"
    /\ remote \in {None} \cup {Some(o) : o \in TokenObjects}
    /\ remote0 = remote
    /\ index = IF IsNone(remote) THEN 0 ELSE 1
    /\ params \in {(1 :> p) @@ (2 :> TokenRemoval) : p \in TokenParamSpace}
    /\ check_mode \in {(1 :> c) @@ (2 :> FALSE) : c \in BOOLEAN}
    /\ diff_mode \in BOOLEAN
    /\ pc = [i \in Invocations |-> "start"]
    /\ obj = [i \in Invocations |-> None]
    /\ op = [i \in Invocations |-> ""]
    /\ changed = [i \in Invocations |-> FALSE]
    /\ diff = [i \in Invocations |-> EmptyDict]
    /\ new_obj = [i \in Invocations |-> None]
    /\ result = [i \in Invocations |-> None]
    /\ reqs = [i \in Invocations |-> <<>>]
    /\ err = [i \in Invocations |-> None]
    /\ after = [i \in Invocations |-> {}]

SpecToken == InitToken /\ [][Next]_vars

\* the steps of one invocation
Step(i) == Read(i) \/ Create(i) \/ Update(i) \/ Delete(i) \/ Noop(i)

\* the invocations that set at most a description
FairParamSpace(self) ==
    {p \in ParamSpace(self) :
        /\ DOMAIN p \cap {"rules", "roles", "expiration_ttl"} = {}
        /\ "description" \in DOMAIN p => p["description"] = "d2"}

InitFair ==
    /\ kind \in {"policy", "token"}
    /\ remote \in {None} \cup
         {Some(o) : o \in {x \in InitialObjects(kind) :
                             DOMAIN x \cap {"Roles", "ExpirationTTL"} = {}}}
    /\ remote0 = remote
    /\ index = IF IsNone(remote) THEN 0 ELSE 1
    /\ params \in [Invocations -> FairParamSpace(kind)]
    /\ check_mode \in {(1 :> c) @@ (2 :> FALSE) : c \in BOOLEAN}
    /\ diff_mode = FALSE
    /\ pc = [i \in Invocations |-> "start"]
    /\ obj = [i \in Invocations |-> None]
    /\ op = [i \in Invocations |-> ""]
    /\ changed = [i \in Invocations |-> FALSE]
    /\ diff = [i \in Invocations |-> EmptyDict]
    /\ new_obj = [i \in Invocations |-> None]
    /\ result = [i \in Invocations |-> None]
    /\ reqs = [i \in Invocations |-> <<>>]
    /\ err = [i \in Invocations |-> None]
    /\ after = [i \in Invocations |-> {}]

\* every invocation is a process of its own that runs on without waiting
\* for anything but the answer to its request, which open_url bounds by a
\* timeout
FairSpec ==
    /\ InitFair
    /\ [][Next]_vars
    /\ \A i \in Invocations : WF_vars(Step(i))

-----------------------------------------------------------------------------
(* Vocabulary of the properties *)

Done(i) == pc[i] = "done"

Mutating(r) == r.method \in {"PUT", "DELETE"}

\* the requests invocation i has sent that change the agent's store
Writes(i) == {n \in 1..Len(reqs[i]) : Mutating(reqs[i][n])}

\* the PUTs of invocation i to the identifier-scoped endpoint
UpdatePuts(i) ==
    {n \in 1..Len(reqs[i]) :
        reqs[i][n].method = "PUT" /\ reqs[i][n].url # api_endpoint(kind)}

HasRead(i) == Len(reqs[i]) >= 1

\* read_object has returned to execute
ReadReturned(i) == pc[i] = "read" \/ (Finished(i) /\ op[i] # "")

\* the answer to the read was an HTTP error status
ReadError(i) == HasRead(i) /\ reqs[i][1].status >= 400

\* the answers that mean "no such object" for the resource type
RecognisedNotFound(self, r) ==
    \/ r.status = 404
    \/ r.status = 403 /\ Contains("ACL not found", r.text)
    \/ self = "token" /\ r.status = 403
         /\ Contains("token does not exist", r.text)

\* the read was answered with the object or with "no such object"
ReadSucceeded(i) ==
    /\ HasRead(i)
    /\ reqs[i][1].status < 400 \/ RecognisedNotFound(kind, reqs[i][1])

\* the candidate execute builds for invocation i
Candidate(i) == module_to_obj(kind, params[i], ~IsNone(obj[i]))

\* the row of the decision table for invocation i
Decision(i) ==
    IF Present(i)
    THEN IF IsNone(obj[i])
         THEN OPERATION_CREATE
         ELSE IF needs_update(kind, The(obj[i]), Candidate(i))
              THEN OPERATION_UPDATE
              ELSE "noop"
    ELSE IF IsNone(obj[i]) THEN "noop" ELSE OPERATION_DELETE

\* parameters an existing object no longer takes
CreateOnlyParams(self) ==
    create_only_fields(self)
    \cup (IF self = "token" THEN {"expiration_ttl"} ELSE {})

\* j ran after i had finished, and nobody ran before i
InARow(i, j) == i # j /\ after[i] = {} /\ i \in after[j]

-----------------------------------------------------------------------------
(* C1..C10 *)

\* C1: for any DesiredState, two runs in a row with state=present and
\* check-mode off, starting from an agent that does not hold the object and
\* answering every request faithfully, report changed=true and then
\* changed=false, with the same result object.
C1_Idempotence ==
    \A i, j \in Invocations :
        ( /\ InARow(i, j)
          /\ IsNone(remote0)
          /\ Finished(i) /\ Finished(j)
          /\ params[i] = params[j]
          /\ Present(i)
          /\ ~check_mode[i] /\ ~check_mode[j]
          /\ ~ReadError(i) \/ ReadSucceeded(i)
          /\ ~ReadError(j) \/ ReadSucceeded(j) )
        => /\ Done(i) /\ changed[i]
           /\ Done(j) /\ ~changed[j]
           /\ new_obj[i] = new_obj[j]

\* C2: a step of an invocation in check-mode leaves the agent's store as it
\* was, and such an invocation never has a PUT or DELETE among its requests.
C2_CheckModeNoWrites ==
    [][\A i \in Invocations :
         (check_mode[i] /\ pc'[i] # pc[i])
         => /\ remote' = remote
            /\ \A n \in 1..Len(reqs'[i]) : reqs'[i][n].method = "GET"]_vars

C2_Witness ==
    \E i \in Invocations :
        /\ Done(i) /\ check_mode[i] /\ changed[i]
        /\ op[i] \in {OPERATION_CREATE, OPERATION_UPDATE, OPERATION_DELETE}
        /\ Writes(i) = {}
        /\ remote = remote0

\* C3: two invocations with the same parameters that read the same remote
\* object, one in check-mode and one not, report the same changed.
C3_SameChanged ==
    \A i, j \in Invocations :
        ( /\ Done(i) /\ Done(j)
          /\ params[i] = params[j]
          /\ check_mode[i] /\ ~check_mode[j]
          /\ obj[i] = obj[j] )
        => changed[i] = changed[j]

C3_Witness ==
    \E i, j \in Invocations :
        /\ Done(i) /\ Done(j)
        /\ params[i] = params[j]
        /\ check_mode[i] /\ ~check_mode[j]
        /\ obj[i] = obj[j]
        /\ changed[i] /\ changed[j]
        /\ Writes(j) # {}

\* C4: a read answered with an error status that is neither 404 nor a 403
\* with a recognised does-not-exist body ends the invocation in a
\* RequestError carrying status and body: the object is not taken as absent,
\* nothing is written and no result is reported.
C4_ReadErrorsFatal ==
    \A i \in Invocations :
        (ReadError(i) /\ ~RecognisedNotFound(kind, reqs[i][1]))
        => /\ pc[i] = "failed"
           /\ err[i] = Some([type |-> "RequestError",
                             status |-> reqs[i][1].status,
                             response_data |-> reqs[i][1].text])
           /\ Len(reqs[i]) = 1
           /\ IsNone(result[i])

\* C5: with state=present and an existing remote object, a create-only
\* parameter (1) makes no difference to needs-update and (2) its remote key
\* is in the body of no update PUT.
C5_CreateOnlyImmunity ==
    \A i \in Invocations : \A k \in CreateOnlyParams(kind) :
        (Present(i) /\ ~IsNone(obj[i]))
        => /\ needs_update(kind, The(obj[i]),
                           module_to_obj(kind, params[i], TRUE))
              = needs_update(kind, The(obj[i]),
                             module_to_obj(kind, Without(params[i], {k}),
                                           TRUE))
           /\ \A n \in UpdatePuts(i) :
                camel_case_key(k) \notin DOMAIN The(reqs[i][n].data)

\* C6: after a successful read an invocation takes exactly the branch the
\* decision table names and sends at most the one write of that branch;
\* changed is true exactly for create, update and delete, and the result
\* object is empty for state=absent.
C6_DecisionTable ==
    \A i \in Invocations :
        (Finished(i) /\ ReadSucceeded(i))
        => /\ op[i] = Decision(i)
           /\ Cardinality(Writes(i)) <= 1
           /\ op[i] = "noop" => Writes(i) = {}
           /\ \A n \in Writes(i) :
                /\ op[i] = OPERATION_CREATE
                   => reqs[i][n].method = "PUT"
                      /\ reqs[i][n].url = api_endpoint(kind)
                /\ op[i] = OPERATION_UPDATE
                   => reqs[i][n].method = "PUT"
                      /\ reqs[i][n].url = UrlOf(kind, The(obj[i]))
                /\ op[i] = OPERATION_DELETE
                   => reqs[i][n].method = "DELETE"
                      /\ reqs[i][n].url = UrlOf(kind, The(obj[i]))
           /\ Done(i)
              => /\ changed[i] <=> op[i] \in {OPERATION_CREATE,
                                              OPERATION_UPDATE,
                                              OPERATION_DELETE}
                 /\ The(result[i])["changed"] = changed[i]
                 /\ Absent(i) => /\ IsNone(new_obj[i])
                                 /\ IsNone(The(result[i])[result_key(kind)])

C6_Witness ==
    /\ \E i \in Invocations :
         Done(i) /\ ReadSucceeded(i) /\ op[i] = OPERATION_UPDATE
         /\ Writes(i) # {}
    /\ \E j \in Invocations :
         Done(j) /\ ReadSucceeded(j) /\ Absent(j)
         /\ op[j] \in {OPERATION_DELETE, "noop"}

\* C7: state=absent for an object read_object did not find sends no write,
\* reports changed=false and computes diff = {before: {}, after: {}}.
C7_AbsenceIdempotence ==
    \A i \in Invocations :
        (Finished(i) /\ ReadReturned(i) /\ Absent(i) /\ IsNone(obj[i]))
        => /\ Done(i)
           /\ Writes(i) = {}
           /\ ~changed[i]
           /\ ~The(result[i])["changed"]
           /\ diff[i] = [before |-> EmptyDict, after |-> EmptyDict]

C7_Witness ==
    \E i \in Invocations :
        /\ Done(i) /\ Absent(i) /\ IsNone(obj[i]) /\ IsNone(remote)
        /\ ReadSucceeded(i)
        /\ diff[i] = [before |-> EmptyDict, after |-> EmptyDict]

\* C8: no PUT body, of a create or of an update, has one of the keys
\* CreateIndex, CreateTime, Hash, ModifyIndex.
C8_NoMetadataSent ==
    \A i \in Invocations : \A n \in 1..Len(reqs[i]) :
        (reqs[i][n].method = "PUT" /\ ~IsNone(reqs[i][n].data))
        => (DOMAIN The(reqs[i][n].data)) \cap operational_attributes = {}

C8_Witness ==
    \E i \in Invocations :
        /\ ~IsNone(obj[i])
        /\ operational_attributes \subseteq
             (DOMAIN The(obj[i])) \cup {"CreateTime"}
        /\ UpdatePuts(i) # {}
        /\ \A n \in UpdatePuts(i) :
             "ID" \in DOMAIN The(reqs[i][n].data)
             \/ "AccessorID" \in DOMAIN The(reqs[i][n].data)

\* C9: in check-mode the reported result and diff.after are the payload the
\* invocation would have PUT: the candidate for a create, the candidate
\* merged onto the metadata-stripped remote object for an update; for a
\* delete diff.after is the empty object.
C9_CheckModePayload ==
    \A i \in Invocations :
        (Done(i) /\ check_mode[i])
        => /\ op[i] = OPERATION_CREATE
              => /\ new_obj[i] = Some(prepare_object(EmptyDict, Candidate(i)))
                 /\ diff[i].after = prepare_object(EmptyDict, Candidate(i))
           /\ op[i] = OPERATION_UPDATE
              => /\ new_obj[i] = Some(prepare_object(The(obj[i]), Candidate(i)))
                 /\ diff[i].after = prepare_object(The(obj[i]), Candidate(i))
           /\ op[i] = OPERATION_DELETE
              => diff[i].after = EmptyDict

\* C10: a token invocation with state=present and no accessor_id does not
\* fail before acting: it takes the token as not existing and creates it,
\* reporting changed=true unless the agent refuses the create.
C10_AccessorOptional ==
    \A i \in Invocations :
        ( /\ kind = "token"
          /\ Present(i)
          /\ "accessor_id" \notin DOMAIN params[i]
          /\ Finished(i) )
        => /\ op[i] = OPERATION_CREATE
           /\ Done(i) => changed[i]

-----------------------------------------------------------------------------
(* C11..C18 *)

\* the names of the entries of a Roles or Policies list
EntryNames(entries) == [n \in 1..Len(entries) |-> entries[n].Name]

\* the candidate names the same entries, in the same order, as the remote
\* list under key k, or does not set k at all
NamesMatch(api_obj, module_obj, k) ==
    k \in DOMAIN module_obj =>
        /\ k \in DOMAIN api_obj
        /\ EntryNames(module_obj[k]) = EntryNames(api_obj[k])

\* every other field the candidate sets has the remote object's value
OtherFieldsMatch(api_obj, module_obj) ==
    \A k \in DOMAIN module_obj \ {"Roles", "Policies"} :
        k \in DOMAIN api_obj /\ api_obj[k] = module_obj[k]

\* C11: a token declared present whose roles and policies name the entries
\* of the remote Roles and Policies lists in the same order, and whose other
\* fields equal the remote ones, needs no update whatever else the remote
\* entries carry (ID) and whether or not the remote has a SecretID the
\* operator left out: the invocation ends changed=false without a write.
C11_TokenNamesOnly ==
    \A i \in Invocations :
        ( /\ kind = "token"
          /\ Present(i)
          /\ ReadReturned(i)
          /\ ~IsNone(obj[i])
          /\ NamesMatch(The(obj[i]), Candidate(i), "Roles")
          /\ NamesMatch(The(obj[i]), Candidate(i), "Policies")
          /\ OtherFieldsMatch(The(obj[i]), Candidate(i)) )
        => /\ ~needs_update(kind, The(obj[i]), Candidate(i))
           /\ Finished(i) =>
                /\ op[i] = "noop"
                /\ ~changed[i]
                /\ Writes(i) = {}

\* a finished token invocation that named both remote roles, whose entries
\* carry an ID, and left the remote SecretID out
C11_Witness ==
    \E i \in Invocations :
        /\ kind = "token"
        /\ Done(i)
        /\ Present(i)
        /\ ~IsNone(obj[i])
        /\ "roles" \in DOMAIN params[i]
        /\ Len(params[i]["roles"]) = 2
        /\ "policies" \in DOMAIN params[i]
        /\ "secret_id" \notin DOMAIN params[i]
        /\ "SecretID" \in DOMAIN The(obj[i])
        /\ "Roles" \in DOMAIN The(obj[i])
        /\ Len(The(obj[i])["Roles"]) = 2
        /\ "ID" \in DOMAIN The(obj[i])["Roles"][1]
        /\ op[i] = "noop"

\* an invocation that has created the object on the agent
Created(i) == Done(i) /\ op[i] = OPERATION_CREATE /\ ~check_mode[i]

\* C12: after a create with check-mode off every key of the translated
\* candidate is in the object returned as the result with the candidate's
\* value, and needs-update of the candidate against that object is false.
C12_CreateRoundTrip ==
    \A i \in Invocations :
        Created(i) =>
            /\ \A k \in DOMAIN Candidate(i) \ operational_attributes :
                 /\ k \in DOMAIN The(new_obj[i])
                 /\ The(new_obj[i])[k] = Candidate(i)[k]
            /\ ~needs_update(kind, The(new_obj[i]), Candidate(i))

\* C12, amended: after a create with check-mode off every key of the
\* translated candidate other than ExpirationTTL is in the object returned
\* as the result; Roles and Policies name the candidate's entries in the
\* candidate's order, every other key has the candidate's value; and
\* needs-update of the candidate against that object is false.
C12_CreateRoundTripByName ==
    \A i \in Invocations :
        Created(i) =>
            /\ \A k \in DOMAIN Candidate(i) \ {"ExpirationTTL"} :
                 /\ k \in DOMAIN The(new_obj[i])
                 /\ IF kind = "token" /\ k \in {"Roles", "Policies"}
                    THEN EntryNames(The(new_obj[i])[k])
                           = EntryNames(Candidate(i)[k])
                    ELSE The(new_obj[i])[k] = Candidate(i)[k]
            /\ ~needs_update(kind, The(new_obj[i]), Candidate(i))

\* a token created with a role and an expiration
C12_Witness ==
    \E i \in Invocations :
        /\ Created(i)
        /\ kind = "token"
        /\ "Roles" \in DOMAIN Candidate(i)
        /\ "ExpirationTTL" \in DOMAIN Candidate(i)
        /\ The(new_obj[i]) = The(remote)

\* the parameters that describe the resource, per module
ResourceParams ==
    [self \in {"policy", "token"} |->
       ARGUMENT_SPEC(self) \ ({"state"} \cup auth_argument_spec)]

\* the remote-convention key of every parameter
RemoteKey ==
    [k \in ARGUMENT_SPEC("policy") \cup ARGUMENT_SPEC("token") |->
       camel_case_key(k)]

\* the remote-convention names of state and of the connection parameters
ControlKeys ==
    {"State", "Host", "Port", "Scheme", "ValidateCerts", "Token", "CaPath"}

PutBodies(i) ==
    {The(reqs[i][n].data) :
        n \in {m \in 1..Len(reqs[i]) :
                 reqs[i][m].method = "PUT" /\ ~IsNone(reqs[i][m].data)}}

\* C13: the candidate built for create has exactly one remote-convention
\* key per resource parameter whose value is not null, with that value
\* (roles and policies as Name entries), and nothing else; state and the
\* connection parameters are in no candidate and in no PUT body; the create
\* PUT carries exactly the candidate's keys.
C13_CandidateTranslation ==
    \A i \in Invocations :
        LET set == (DOMAIN params[i]) \cap ResourceParams[kind]
            c == Candidate(i)
        IN /\ pc[i] = "read" =>
                /\ DOMAIN c \cap ControlKeys = {}
                /\ (Present(i) /\ IsNone(obj[i])) =>
                     /\ DOMAIN c = {RemoteKey[k] : k \in set}
                     /\ Cardinality(DOMAIN c) = Cardinality(set)
                     /\ \A k \in set :
                          c[RemoteKey[k]] =
                            IF /\ k \in {"roles", "policies"}
                               /\ params[i][k] # <<>>
                            THEN NameRecords(params[i][k])
                            ELSE params[i][k]
           /\ (Created(i) /\ set # {}) =>
                /\ reqs[i][2].url = api_endpoint(kind)
                /\ DOMAIN The(reqs[i][2].data) = {RemoteKey[k] : k \in set}
           /\ \A b \in PutBodies(i) : DOMAIN b \cap ControlKeys = {}

\* policy {name, rules} created: PUT acl/policy with exactly {Name, Rules}
C13_Witness ==
    \E i \in Invocations :
        /\ kind = "policy"
        /\ Created(i)
        /\ (DOMAIN params[i]) \cap ResourceParams[kind] = {"name", "rules"}
        /\ reqs[i][2].method = "PUT"
        /\ reqs[i][2].url = "acl/policy"
        /\ DOMAIN The(reqs[i][2].data) = {"Name", "Rules"}

\* the requests of invocation i are a read, or a read and then one write
ReadThenWrite(i) ==
    /\ Len(reqs[i]) \in {1, 2}
    /\ reqs[i][1].method = "GET"
    /\ Len(reqs[i]) = 2 => Mutating(reqs[i][2])

Differs(api_obj, module_obj) ==
    \E k \in DOMAIN module_obj :
        IF k \in DOMAIN api_obj THEN api_obj[k] # module_obj[k] ELSE TRUE

\* d without the keys outside ks
Restrict(d, ks) == [k \in (DOMAIN d) \cap ks |-> d[k]]

\* the candidate of invocation j for an object that exists
UpdateCandidate(j) == module_to_obj(kind, params[j], TRUE)

\* C15: the generic needs-update of a remote object and a candidate is true
\* exactly if some key of the candidate is missing from the remote object
\* or has a different value there; the keys only the remote object has do
\* not matter, and an empty candidate needs no update.  Stated for every
\* object an invocation has read and every invocation's candidate.
C15_SubsetComparison ==
    \A i \in Invocations :
        (pc[i] = "read" /\ ~IsNone(obj[i])) =>
            /\ ~ConsulModule_needs_update(The(obj[i]), EmptyDict)
            /\ \A j \in Invocations :
                 LET c == UpdateCandidate(j)
                     a == The(obj[i])
                 IN /\ ConsulModule_needs_update(a, c) = Differs(a, c)
                    /\ ConsulModule_needs_update(a, c)
                         = ConsulModule_needs_update(Restrict(a, DOMAIN c), c)

\* a remote object with keys of its own, compared with a candidate that
\* agrees with it on one key and not on another
C15_Witness ==
    \E i, j \in Invocations :
        /\ pc[i] = "read"
        /\ ~IsNone(obj[i])
        /\ DOMAIN The(obj[i]) \ DOMAIN UpdateCandidate(j) # {}
        /\ \E k \in DOMAIN UpdateCandidate(j) :
             k \in DOMAIN The(obj[i]) /\ The(obj[i])[k] = UpdateCandidate(j)[k]
        /\ ConsulModule_needs_update(The(obj[i]), UpdateCandidate(j))

\* invocation i completes an update on the agent in this step
Updates(i) ==
    /\ pc[i] = "read"
    /\ pc'[i] = "done"
    /\ op'[i] = OPERATION_UPDATE
    /\ ~check_mode[i]

\* the fields of the object read that the candidate does not set and that
\* the agent keeps as sent
Unmanaged(i) ==
    DOMAIN The(obj[i])
      \ (DOMAIN UpdateCandidate(i) \cup operational_attributes
           \cup {"ExpirationTTL"})

\* C16: an update PUT carries no version or index precondition and writes
\* every field the invocation does not manage with the value the invocation
\* read, whatever the agent holds by then: two uncoordinated invocations on
\* one object can lose the first one's change although both report
\* changed=true.
C16_LostUpdate ==
    [][\A i \in Invocations :
         Updates(i) =>
            /\ ~IsNone(remote')
            /\ \A k \in Unmanaged(i) :
                 /\ k \in DOMAIN The(remote')
                 /\ The(remote')[k] = The(obj[i])[k]
            /\ LET put == reqs'[i][Len(reqs'[i])]
               IN /\ put.method = "PUT"
                  /\ put.url = UrlOf(kind, The(obj[i]))
                  /\ DOMAIN The(put.data) \cap operational_attributes = {}]_vars

\* i read, j then read and changed field F, i then wrote: both report
\* changed=true and F is back at the value i had read
C16_Witness ==
    \E i, j \in Invocations :
        /\ i # j
        /\ Done(i) /\ Done(j)
        /\ op[i] = OPERATION_UPDATE /\ op[j] = OPERATION_UPDATE
        /\ ~check_mode[i] /\ ~check_mode[j]
        /\ changed[i] /\ changed[j]
        /\ ~IsNone(remote)
        /\ The(obj[i])["ModifyIndex"] < The(new_obj[j])["ModifyIndex"]
        /\ The(new_obj[j])["ModifyIndex"] < The(new_obj[i])["ModifyIndex"]
        /\ \E F \in DOMAIN UpdateCandidate(j) \ DOMAIN UpdateCandidate(i) :
             /\ The(new_obj[j])[F] = UpdateCandidate(j)[F]
             /\ The(obj[i])[F] # UpdateCandidate(j)[F]
             /\ The(remote)[F] = The(obj[i])[F]

\* invocation i has sent the PUT of an update
SentUpdate(i) ==
    /\ op[i] = OPERATION_UPDATE
    /\ ~check_mode[i]
    /\ Len(reqs[i]) = 2

\* C17: the PUT of an update goes to <endpoint>/<identifier of the object
\* that was read>; the keys of its body are the keys of that object without
\* the four operational metadata keys, together with the candidate's keys;
\* a candidate key has the candidate's value and every other key the value
\* that was read.
C17_UpdatePayload ==
    \A i \in Invocations :
        SentUpdate(i) =>
            LET put == reqs[i][2]
                a == The(obj[i])
                c == UpdateCandidate(i)
            IN /\ put.method = "PUT"
               /\ put.url = IF kind = "policy"
                            THEN "acl/policy/" \o a["ID"]
                            ELSE "acl/token/" \o a["AccessorID"]
               /\ ~IsNone(put.data)
               /\ DOMAIN The(put.data)
                    = (DOMAIN a \ {"CreateIndex", "CreateTime", "Hash",
                                   "ModifyIndex"}) \cup DOMAIN c
               /\ \A k \in DOMAIN The(put.data) :
                    The(put.data)[k] = IF k \in DOMAIN c THEN c[k] ELSE a[k]

\* an update whose body replaces a value that was read, keeps another and
\* has dropped the metadata
C17_Witness ==
    \E i \in Invocations :
        /\ SentUpdate(i)
        /\ Done(i)
        /\ "ModifyIndex" \in DOMAIN The(obj[i])
        /\ \E k \in DOMAIN UpdateCandidate(i) :
             /\ k \in DOMAIN The(obj[i])
             /\ The(obj[i])[k] # UpdateCandidate(i)[k]
             /\ The(reqs[i][2].data)[k] = UpdateCandidate(i)[k]
        /\ \E k \in DOMAIN The(reqs[i][2].data) :
             k \notin DOMAIN UpdateCandidate(i)

\* C18: the comparison works on copies: after it the object that was read
\* and the candidate are what they were before, so a no-op reports the
\* remote object exactly as read (metadata, SecretID and full Roles and
\* Policies entries included), and an update reports it as diff.before and
\* merges the candidate into it.
C18_ComparisonKeepsInputs ==
    \A i \in Invocations :
        /\ (pc[i] = "read" /\ ~IsNone(obj[i])) =>
             LET r == _needs_update(kind, The(obj[i]), UpdateCandidate(i))
             IN /\ r.api_obj = The(obj[i])
                /\ r.module_obj = UpdateCandidate(i)
        /\ (Done(i) /\ Present(i) /\ op[i] = "noop") => new_obj[i] = obj[i]
        /\ (Done(i) /\ op[i] = OPERATION_UPDATE) =>
             /\ diff[i].before = The(obj[i])
             /\ ~check_mode[i] =>
                  \A k \in DOMAIN The(obj[i]) \ operational_attributes :
                      The(reqs[i][2].data)[k] =
                          IF k \in DOMAIN UpdateCandidate(i)
                          THEN UpdateCandidate(i)[k]
                          ELSE The(obj[i])[k]

\* a no-op on a token whose SecretID and role IDs the comparison had to
\* leave out, and which come back in the result
C18_Witness ==
    \E i \in Invocations :
        /\ kind = "token"
        /\ Done(i)
        /\ Present(i)
        /\ op[i] = "noop"
        /\ "secret_id" \notin DOMAIN params[i]
        /\ "roles" \in DOMAIN params[i]
        /\ params[i]["roles"] # <<>>
        /\ "SecretID" \in DOMAIN The(new_obj[i])
        /\ "ID" \in DOMAIN The(new_obj[i])["Roles"][1]
        /\ "ModifyIndex" \in DOMAIN The(new_obj[i])

=============================================================================
